---- MODULE Spec2Model ----
(***************************************************************************)
(* Model of the classification-and-rename-planning engine of               *)
(* torrent-renamer-rust: crates/app/src/file_intent.rs, get_file_intent.   *)
(*                                                                         *)
(* Strings are sequences of one-character strings, so that formatting,     *)
(* path splitting and path comparison are computed and not assumed.        *)
(* Option<T> is a sequence of length 0 (None) or 1 (Some).                 *)
(***************************************************************************)
EXTENDS Integers, Sequences, FiniteSets, TLC

\* ------------------------------------------------------------------------
\* Bounds of the model
\* ------------------------------------------------------------------------
MaxSegs == 3

\* ------------------------------------------------------------------------
\* Characters and strings
\* ------------------------------------------------------------------------
None == <<>>
Some(x) == <<x>>
IsSome(o) == Len(o) = 1
Unwrap(o) == o[1]

Digits == <<"0", "1", "2", "3", "4", "5", "6", "7", "8", "9">>
IsDigit(c) == c \in {"0", "1", "2", "3", "4", "5", "6", "7", "8", "9"}
DigitVal(c) == (CHOOSE d \in 1..10 : Digits[d] = c) - 1

RECURSIVE Concat(_)
Concat(ss) == IF ss = <<>> THEN <<>> ELSE Head(ss) \o Concat(Tail(ss))

\* Vec<String>::contains
Contains(v, x) == \E i \in 1..Len(v) : v[i] = x

\* index of the first occurrence of sep in s at or after i (Len(s) + 1 if none)
RECURSIVE FindFrom(_, _, _)
FindFrom(s, sep, i) ==
    IF i > Len(s) \/ s[i] = sep THEN i ELSE FindFrom(s, sep, i + 1)

\* pieces of s between occurrences of sep (str::split)
RECURSIVE SplitOn(_, _)
SplitOn(s, sep) ==
    LET i == FindFrom(s, sep, 1)
    IN IF i > Len(s) THEN <<s>>
       ELSE <<SubSeq(s, 1, i - 1)>> \o SplitOn(SubSeq(s, i + 1, Len(s)), sep)

\* ------------------------------------------------------------------------
\* std::path::Path on a Unix target
\* ------------------------------------------------------------------------
RootDir == <<"/">>
CurDir == <<".">>
ParentDir == <<".", ".">>

\* Path::components / Path::iter: repeated separators and a trailing
\* separator are dropped, "." is dropped except at the start of a relative
\* path, a leading separator gives the root component.
Components(s) ==
    LET has_root == Len(s) > 0 /\ s[1] = "/"
        include_cur_dir == /\ ~has_root
                           /\ Len(s) > 0 /\ s[1] = "."
                           /\ (Len(s) = 1 \/ s[2] = "/")
        front == IF has_root THEN <<RootDir>>
                 ELSE IF include_cur_dir THEN <<CurDir>> ELSE <<>>
        IsBody(p) == p # <<>> /\ p # CurDir
    IN front \o SelectSeq(SplitOn(s, "/"), IsBody)

\* Path::file_name: the last component when it is a normal one
FileName(s) ==
    LET comps == Components(s)
    IN IF comps = <<>> THEN None
       ELSE LET last == comps[Len(comps)]
            IN IF last \in {RootDir, CurDir, ParentDir} THEN None
               ELSE Some(last)

\* Path::extension: the part of the file name after its last ".", when
\* there is one and the part before it is not empty
Extension(s) ==
    LET name == FileName(s)
    IN IF ~IsSome(name) THEN None
       ELSE LET f == Unwrap(name)
                dots == {i \in 1..Len(f) : f[i] = "."}
            IN IF dots = {} THEN None
               ELSE LET d == CHOOSE i \in dots : \A j \in dots : j <= i
                    IN IF d = 1 THEN None
                       ELSE Some(SubSeq(f, d + 1, Len(f)))

\* Path::join (PathBuf::push): an absolute argument replaces the base,
\* otherwise a separator is added unless the base is empty or ends in one
PathJoin(base, p) ==
    IF Len(p) > 0 /\ p[1] = "/" THEN p
    ELSE IF base = <<>> \/ base[Len(base)] = "/" THEN base \o p
    ELSE base \o <<"/">> \o p

\* PathEq comparing the two path strings instead of their components
PathEq_Strings(a, b) == a = b

\* PartialEq for Path: equality of the component sequences
PathEq(a, b) == Components(a) = Components(b)

\* ------------------------------------------------------------------------
\* file_descriptor: get_descriptor, clean_series_name, clean_episode_title
\* (contracts of sections 4.2 and 4.3)
\* ------------------------------------------------------------------------
RECURSIVE DecVal(_)
DecVal(ds) ==
    IF ds = <<>> THEN 0
    ELSE 10 * DecVal(SubSeq(ds, 1, Len(ds) - 1)) + DigitVal(ds[Len(ds)])

\* last index of the run of digits of s that starts at i (i - 1 if none)
RECURSIVE DigitRunEnd(_, _)
DigitRunEnd(s, i) ==
    IF i <= Len(s) /\ IsDigit(s[i]) THEN DigitRunEnd(s, i + 1) ELSE i - 1

\* an "S<digits>E<digits>" marker starts at position i of s
MarkerAt(s, i) ==
    /\ s[i] \in {"S", "s"}
    /\ LET j == DigitRunEnd(s, i + 1)
       IN /\ j >= i + 1
          /\ j + 1 <= Len(s)
          /\ s[j + 1] \in {"E", "e"}
          /\ DigitRunEnd(s, j + 2) >= j + 2

\* the bracketed annotations of s, left to right
RECURSIVE ExtractTags(_)
ExtractTags(s) ==
    LET i == FindFrom(s, "[", 1)
        j == FindFrom(s, "]", i + 1)
    IN IF j > Len(s) THEN <<>>
       ELSE <<SubSeq(s, i + 1, j - 1)>> \o ExtractTags(SubSeq(s, j + 1, Len(s)))

get_descriptor(filename) ==
    LET starts == {i \in 1..Len(filename) : MarkerAt(filename, i)}
    IN IF starts = {} THEN None
       ELSE LET i == CHOOSE i \in starts : \A j \in starts : i <= j
                j == DigitRunEnd(filename, i + 1)
                k == DigitRunEnd(filename, j + 2)
            IN Some([season |-> DecVal(SubSeq(filename, i + 1, j)),
                     episode |-> DecVal(SubSeq(filename, j + 2, k)),
                     tags |-> ExtractTags(filename)])

UnsafeChars == {"/", ":", "?", "*"}

RECURSIVE Trim(_)
Trim(s) ==
    IF s = <<>> THEN s
    ELSE IF s[1] = " " THEN Trim(Tail(s))
    ELSE IF s[Len(s)] = " " THEN Trim(SubSeq(s, 1, Len(s) - 1))
    ELSE s

IsSafeChar(c) == c \notin UnsafeChars
clean_series_name(name) == Trim(SelectSeq(name, IsSafeChar))
clean_episode_title(name) == Trim(SelectSeq(name, IsSafeChar))

\* ------------------------------------------------------------------------
\* file_intent: Action, FileIntent, get_file_intent
\* ------------------------------------------------------------------------
Action == {"Rename", "Complete", "Ignore", "Delete", "Whitelist"}

\* the outcome of a call that panics instead of returning
Panicked == [action |-> "Panic", dest |-> <<>>, descriptor |-> None]

\* format!("{:02}", n) of an unsigned integer
RECURSIVE ToDec(_)
ToDec(n) == IF n < 10 THEN <<Digits[n + 1]>>
            ELSE ToDec(n \div 10) \o <<Digits[(n % 10) + 1]>>

\* Pad2 keeping only the last two digits
Pad2_Truncated(n) ==
    IF Len(ToDec(n % 100)) < 2 THEN <<"0">> \o ToDec(n % 100) ELSE ToDec(n % 100)

Pad2(n) == IF Len(ToDec(n)) < 2 THEN <<"0">> \o ToDec(n) ELSE ToDec(n)

\* FilterAction with the whitelists checked before the blacklist
FilterAction_WhitelistFirst(path_str, rules) ==
    LET extension == Extension(path_str)
        filename == FileName(path_str)
        comps == Components(path_str)
    IN IF ~IsSome(extension) THEN Some("Delete")
       ELSE IF ~IsSome(filename) THEN Some("Delete")
       ELSE IF \E i \in 1..Len(comps) : Contains(rules.whitelist_folders, comps[i])
            THEN Some("Whitelist")
       ELSE IF Contains(rules.whitelist_filenames, Unwrap(filename))
            THEN Some("Whitelist")
       ELSE IF Contains(rules.blacklist_extensions, Unwrap(extension))
            THEN Some("Delete")
       ELSE None

\* FilterAction looking the whole path up in whitelist_filenames
FilterAction_FilenameIsPath(path_str, rules) ==
    LET extension == Extension(path_str)
        filename == FileName(path_str)
        comps == Components(path_str)
    IN IF ~IsSome(extension) THEN Some("Delete")
       ELSE IF ~IsSome(filename) THEN Some("Delete")
       ELSE IF Contains(rules.blacklist_extensions, Unwrap(extension))
            THEN Some("Delete")
       ELSE IF \E i \in 1..Len(comps) : Contains(rules.whitelist_folders, comps[i])
            THEN Some("Whitelist")
       ELSE IF Contains(rules.whitelist_filenames, path_str)
            THEN Some("Whitelist")
       ELSE None

\* lines 61-94: the action of the first filter rule that applies, if any
FilterAction(path_str, rules) ==
    LET extension == Extension(path_str)
        filename == FileName(path_str)
        comps == Components(path_str)
    IN IF ~IsSome(extension) THEN Some("Delete")
       ELSE IF ~IsSome(filename) THEN Some("Delete")
       ELSE IF Contains(rules.blacklist_extensions, Unwrap(extension))
            THEN Some("Delete")
       ELSE IF \E i \in 1..Len(comps) : Contains(rules.whitelist_folders, comps[i])
            THEN Some("Whitelist")
       ELSE IF Contains(rules.whitelist_filenames, Unwrap(filename))
            THEN Some("Whitelist")
       ELSE None

\* NewEpisodeTitle indexing episode_cache without handling a missing key
NewEpisodeTitle_Unchecked(cache, episode_key) ==
    IF episode_key \notin DOMAIN cache.episode_cache THEN None
    ELSE LET index == cache.episode_cache[episode_key]
         IN IF index >= Len(cache.episodes) THEN None
            ELSE LET episode == cache.episodes[index + 1]
                 IN IF ~IsSome(episode.name) THEN Some(<<>>)
                    ELSE LET clean_name == clean_episode_title(Unwrap(episode.name))
                         IN IF clean_name = <<>> THEN Some(<<>>)
                            ELSE Some(<<"-">> \o clean_name)

\* lines 112-128: Some(title suffix), or None when the index is out of
\* bounds (cache.episodes[*index] panics)
NewEpisodeTitle(cache, episode_key) ==
    IF episode_key \notin DOMAIN cache.episode_cache THEN Some(<<>>)
    ELSE LET index == cache.episode_cache[episode_key]
         IN IF index >= Len(cache.episodes) THEN None
            ELSE LET episode == cache.episodes[index + 1]
                 IN IF ~IsSome(episode.name) THEN Some(<<>>)
                    ELSE LET clean_name == clean_episode_title(Unwrap(episode.name))
                         IN IF clean_name = <<>> THEN Some(<<>>)
                            ELSE Some(<<"-">> \o clean_name)

\* TagsString keeping every tag
RECURSIVE TagsString_Unfiltered(_, _)
TagsString_Unfiltered(tags, rules) ==
    IF tags = <<>> THEN <<>>
    ELSE <<".", "[">> \o Head(tags) \o <<"]">> \o TagsString_Unfiltered(Tail(tags), rules)

\* lines 129-134
RECURSIVE TagsString(_, _)
TagsString(tags, rules) ==
    IF tags = <<>> THEN <<>>
    ELSE (IF Contains(rules.whitelist_tags, Head(tags))
          THEN <<".", "[">> \o Head(tags) \o <<"]">>
          ELSE <<>>) \o TagsString(Tail(tags), rules)

\* lines 136-143
NewFilename(series_name, season, episode, new_episode_title, tags_string, extension) ==
    clean_series_name(series_name) \o <<"-", "S">> \o Pad2(season)
        \o <<"E">> \o Pad2(episode) \o new_episode_title \o tags_string
        \o <<".">> \o extension

\* line 146
NewFolder(season) == <<"S", "e", "a", "s", "o", "n", " ">> \o Pad2(season)

\* lines 147-148: the candidate path of a file whose descriptor was found
NewPath(descriptor, extension, new_episode_title, rules, cache) ==
    PathJoin(NewFolder(descriptor.season),
             NewFilename(cache.series.name, descriptor.season, descriptor.episode,
                         new_episode_title, TagsString(descriptor.tags, rules),
                         extension))

\* PlanIntent giving the new file name, without its folder, as dest
PlanIntent_DestWithoutFolder(path_str, rules, cache) ==
    LET extension == Unwrap(Extension(path_str))
        filename == Unwrap(FileName(path_str))
        found == get_descriptor(filename)
    IN IF ~IsSome(found)
       THEN [action |-> "Ignore", dest |-> <<>>, descriptor |-> None]
       ELSE LET descriptor == Unwrap(found)
                episode_key == [season |-> descriptor.season,
                                episode |-> descriptor.episode]
                title == NewEpisodeTitle(cache, episode_key)
            IN IF ~IsSome(title) THEN Panicked
               ELSE LET new_path_str == NewPath(descriptor, extension,
                                                Unwrap(title), rules, cache)
                    IN IF PathEq(new_path_str, path_str)
                       THEN [action |-> "Complete", dest |-> <<>>,
                             descriptor |-> Some(episode_key)]
                       ELSE [action |-> "Rename",
                             dest |-> Unwrap(FileName(new_path_str)),
                             descriptor |-> Some(episode_key)]

\* PlanIntent storing dest before the comparison with the input path
PlanIntent_DestBeforeCompare(path_str, rules, cache) ==
    LET extension == Unwrap(Extension(path_str))
        filename == Unwrap(FileName(path_str))
        found == get_descriptor(filename)
    IN IF ~IsSome(found)
       THEN [action |-> "Ignore", dest |-> <<>>, descriptor |-> None]
       ELSE LET descriptor == Unwrap(found)
                episode_key == [season |-> descriptor.season,
                                episode |-> descriptor.episode]
                title == NewEpisodeTitle(cache, episode_key)
            IN IF ~IsSome(title) THEN Panicked
               ELSE LET new_path_str == NewPath(descriptor, extension,
                                                Unwrap(title), rules, cache)
                    IN IF PathEq(new_path_str, path_str)
                       THEN [action |-> "Complete", dest |-> new_path_str,
                             descriptor |-> Some(episode_key)]
                       ELSE [action |-> "Rename", dest |-> new_path_str,
                             descriptor |-> Some(episode_key)]

\* lines 96-157: the plan of a file that passed every filter rule
PlanIntent(path_str, rules, cache) ==
    LET extension == Unwrap(Extension(path_str))
        filename == Unwrap(FileName(path_str))
        found == get_descriptor(filename)
    IN IF ~IsSome(found)
       THEN [action |-> "Ignore", dest |-> <<>>, descriptor |-> None]
       ELSE LET descriptor == Unwrap(found)
                episode_key == [season |-> descriptor.season,
                                episode |-> descriptor.episode]
                title == NewEpisodeTitle(cache, episode_key)
            IN IF ~IsSome(title) THEN Panicked
               ELSE LET new_path_str == NewPath(descriptor, extension,
                                                Unwrap(title), rules, cache)
                    IN IF PathEq(new_path_str, path_str)
                       THEN [action |-> "Complete", dest |-> <<>>,
                             descriptor |-> Some(episode_key)]
                       ELSE [action |-> "Rename", dest |-> new_path_str,
                             descriptor |-> Some(episode_key)]

\* get_file_intent extracting the descriptor before the filter rules
get_file_intent_DescriptorFirst(path_str, rules, cache) ==
    LET early == FilterAction(path_str, rules)
        filename == FileName(path_str)
        found == IF IsSome(filename) THEN get_descriptor(Unwrap(filename)) ELSE None
        key == IF IsSome(found)
               THEN Some([season |-> Unwrap(found).season,
                          episode |-> Unwrap(found).episode])
               ELSE None
    IN IF IsSome(early)
       THEN [action |-> Unwrap(early), dest |-> <<>>, descriptor |-> key]
       ELSE PlanIntent(path_str, rules, cache)

\* lines 54-158
get_file_intent(path_str, rules, cache) ==
    LET early == FilterAction(path_str, rules)
    IN IF IsSome(early)
       THEN [action |-> Unwrap(early), dest |-> <<>>, descriptor |-> None]
       ELSE PlanIntent(path_str, rules, cache)

\* ------------------------------------------------------------------------
\* tvdb_cache: TvdbCache (section 3, Metadata Cache)
\* ------------------------------------------------------------------------
\* episode_cache maps the key of each episode to its (0-based) index in
\* episodes; a later episode with the same key replaces an earlier one
TvdbCache(series_name, episodes) ==
    LET keys == {[season |-> episodes[i].season, episode |-> episodes[i].episode] :
                     i \in 1..Len(episodes)}
        IndexOf(k) == CHOOSE i \in 1..Len(episodes) :
                          /\ episodes[i].season = k.season
                          /\ episodes[i].episode = k.episode
                          /\ \A j \in 1..Len(episodes) :
                                 (episodes[j].season = k.season
                                  /\ episodes[j].episode = k.episode) => j <= i
    IN [series |-> [name |-> series_name],
        episodes |-> episodes,
        episode_cache |-> [k \in keys |-> IndexOf(k) - 1]]

\* ------------------------------------------------------------------------
\* Inputs
\* ------------------------------------------------------------------------
Segments ==
    { <<"/">>,   \* "/"
      <<".">>,   \* "."
      <<"k", "/">>,   \* "k/"
      <<"S", "e", "a", "s", "o", "n", " ", "0", "4", "/">>,   \* "Season 04/"
      <<"S", "h", "o", "w", "-", "S", "0", "4", "E", "0", "7">>,   \* "Show-S04E07"
      <<"[", "H", "D", "]">>,   \* "[HD]"
      <<".", "m", "k", "v">>   \* ".mkv"
    }

ExamplePaths ==
    { <<"S", "h", "o", "w", ".", "N", "a", "m", "e", ".", "S", "0", "1", "E", "0", "2", ".", "m", "k", "v">>,   \* "Show.Name.S01E02.mkv"
      <<"S", "e", "a", "s", "o", "n", " ", "0", "1", "/", "S", "h", "o", "w", " ", "N", "a", "m", "e", "-", "S", "0", "1", "E", "0", "2", ".", "m", "k", "v">>,   \* "Season 01/Show Name-S01E02.mkv"
      <<"S", "e", "a", "s", "o", "n", " ", "0", "1", "/", "/", "S", "h", "o", "w", "-", "S", "0", "1", "E", "0", "2", "-", "P", "i", "l", "o", "t", ".", "m", "k", "v", "/">>,   \* "Season 01//Show-S01E02-Pilot.mkv/"
      <<".", "/", "S", "e", "a", "s", "o", "n", " ", "0", "1", "/", "S", "h", "o", "w", "-", "S", "0", "1", "E", "0", "2", "-", "P", "i", "l", "o", "t", ".", "m", "k", "v">>,   \* "./Season 01/Show-S01E02-Pilot.mkv"
      <<"S", "e", "a", "s", "o", "n", " ", "0", "4", "/", ".", "/", "S", "h", "o", "w", " ", "N", "a", "m", "e", "-", "S", "0", "4", "E", "0", "7", "-", "T", "w", "o", ".", "[", "H", "D", "]", ".", "m", "k", "v">>,   \* "Season 04/./Show Name-S04E07-Two.[HD].mkv"
      <<"k", "/", "S", "h", "o", "w", "-", "S", "0", "1", "E", "0", "2", ".", "[", "x", "]", ".", "[", "H", "D", "]", ".", "m", "k", "v">>,   \* "k/Show-S01E02.[x].[HD].mkv"
      <<"k", "/", "S", "4", "E", "7", ".", "t", "m", "p">>,   \* "k/S4E7.tmp"
      <<"S", "4", "E", "7", ".", "t", "m", "p">>,   \* "S4E7.tmp"
      <<"S", "1", "2", "3", "E", "4", ".", "m", "k", "v">>,   \* "S123E4.mkv"
      <<"s", "1", "e", "2", "[", "H", "D", "]", "[", "x", "]", "[", "H", "D", "]", ".", "m", "k", "v">>,   \* "s1e2[HD][x][HD].mkv"
      <<"S", "1", "E", "2", "[", "x", "]", ".">>,   \* "S1E2[x]."
      <<"n", "o", "t", "e", "s", ".", "t", "x", "t">>,   \* "notes.txt"
      <<"S", "4", "E", "7", ".", "m", "k", "v", "/", ".", ".">>   \* "S4E7.mkv/.."
    }

SeqsUpTo(S, n) == UNION {[1..m -> S] : m \in 0..n}

Paths == ExamplePaths \cup {Concat(ss) : ss \in SeqsUpTo(Segments, MaxSegs)}

RuleSets ==
    [blacklist_extensions : {<<>>, <<<<"t", "m", "p">>, <<"m", "k", "v">>>>},
     whitelist_folders : {<<>>, <<<<"k">>, <<"S", "e", "a", "s", "o", "n", " ", "0", "4">>>>},
     whitelist_filenames : {<<>>, <<<<"S", "h", "o", "w", "-", "S", "0", "4", "E", "0", "7", ".", "m", "k", "v">>>>},
     whitelist_tags : {<<<<"H", "D">>>>, <<<<"x">>, <<"H", "D">>>>}]

Episode(season, episode, name) ==
    [season |-> season, episode |-> episode, name |-> name]

Caches ==
    { TvdbCache(<<"S", "h", "o", "w", ":">>,
                <<Episode(1, 2, Some(<<"P", "i", "l", "o", "t", "?">>)),
                  Episode(4, 7, None)>>),
      TvdbCache(<<"S", "h", "o", "w", " ", "N", "a", "m", "e">>,
                <<Episode(1, 2, Some(<<" ", "?">>)),
                  Episode(4, 7, Some(<<"O", "l", "d">>)),
                  Episode(4, 7, Some(<<"T", "w", "o">>))>>)
    }

\* ------------------------------------------------------------------------
\* State: one file being classified, and re-classified at the destination
\* of its rename
\* ------------------------------------------------------------------------
VARIABLES path, rules, cache, intent, pc, src

vars == <<path, rules, cache, intent, pc, src>>

Unclassified == [action |-> "Unclassified", dest |-> <<>>, descriptor |-> None]

Init ==
    /\ path \in Paths
    /\ rules \in RuleSets
    /\ cache \in Caches
    /\ intent = Unclassified
    /\ pc = "start"
    /\ src = <<>>

\* the caller classifies the file
Classify ==
    /\ pc = "start"
    /\ intent' = get_file_intent(path, rules, cache)
    /\ pc' = "classified"
    /\ UNCHANGED <<path, rules, cache, src>>

\* the file is at the destination of its rename and is classified again,
\* with the same rules and cache
ClassifyDest ==
    /\ pc = "classified"
    /\ intent.action = "Rename"
    /\ src' = path
    /\ path' = intent.dest
    /\ intent' = get_file_intent(intent.dest, rules, cache)
    /\ pc' = "reclassified"
    /\ UNCHANGED <<rules, cache>>

Next == Classify \/ ClassifyDest

Spec == Init /\ [][Next]_vars

TypeOK ==
    /\ pc \in {"start", "classified", "reclassified"}
    /\ intent.action \in Action \cup {"Unclassified", "Panic"}

\* ------------------------------------------------------------------------
\* Properties
\* ------------------------------------------------------------------------
\* the set of the elements of a list of rule strings
RuleSet(v) == {v[i] : i \in 1..Len(v)}

\* the four filter rules of section 4.1, each taken on its own
Rule1_Malformed(p) == Extension(p) = None \/ FileName(p) = None
Rule2_Blacklisted(p, r) ==
    LET e == Extension(p)
    IN e # None /\ e[1] \in RuleSet(r.blacklist_extensions)
Rule3_FolderWhitelisted(p, r) ==
    LET comps == Components(p)
    IN \E i \in 1..Len(comps) : comps[i] \in RuleSet(r.whitelist_folders)
Rule4_FilenameWhitelisted(p, r) ==
    LET f == FileName(p)
    IN f # None /\ f[1] \in RuleSet(r.whitelist_filenames)

\* the file name of p holds a season/episode marker
HasEpisodePattern(p) ==
    LET f == FileName(p)
    IN f # None /\ get_descriptor(f[1]) # None

\* C1: the early action is that of the first applicable rule, in the order
\* malformed path -> Delete, blacklisted extension -> Delete, whitelisted
\* folder -> Whitelist, whitelisted filename -> Whitelist; a blacklisted
\* extension gives Delete whatever the whitelists and the episode pattern
\* are, and when no rule applies the action is neither Delete nor Whitelist.
C1_FilterOrder ==
    pc # "start" =>
        LET rule1 == Rule1_Malformed(path)
            rule2 == Rule2_Blacklisted(path, rules)
            rule3 == Rule3_FolderWhitelisted(path, rules)
            rule4 == Rule4_FilenameWhitelisted(path, rules)
        IN /\ rule1 => intent.action = "Delete"
           /\ rule2 => intent.action = "Delete"
           /\ (~rule1 /\ ~rule2 /\ (rule3 \/ rule4)) => intent.action = "Whitelist"
           /\ (~rule1 /\ ~rule2 /\ ~rule3 /\ ~rule4)
              => intent.action \notin {"Delete", "Whitelist"}

\* a blacklisted extension wins over a whitelisted folder and an episode
\* pattern in the file name
C1_Witness ==
    /\ pc = "classified"
    /\ Rule2_Blacklisted(path, rules)
    /\ Rule3_FolderWhitelisted(path, rules)
    /\ HasEpisodePattern(path)
    /\ intent.action = "Delete"

\* C2 as stated: every path with a component in whitelist_folders or a
\* file name in whitelist_filenames is classified Whitelist.
C2_WhitelistAlways ==
    (/\ pc # "start"
     /\ (Rule3_FolderWhitelisted(path, rules) \/ Rule4_FilenameWhitelisted(path, rules)))
    => intent.action = "Whitelist"

\* C2 (amended): every path that has an extension which is not in
\* blacklist_extensions, and a component in whitelist_folders or a file
\* name in whitelist_filenames, is classified Whitelist, whatever the file
\* name's content would give (Ignore, Rename or Complete).
C2_WhitelistUnlessDeleted ==
    (/\ pc # "start"
     /\ Extension(path) # None
     /\ Extension(path)[1] \notin RuleSet(rules.blacklist_extensions)
     /\ (Rule3_FolderWhitelisted(path, rules) \/ Rule4_FilenameWhitelisted(path, rules)))
    => intent.action = "Whitelist"

\* a file protected only by its file name whose content alone gives Rename
C2_Witness ==
    /\ pc = "classified"
    /\ ~Rule3_FolderWhitelisted(path, rules)
    /\ Rule4_FilenameWhitelisted(path, rules)
    /\ PlanIntent(path, rules, cache).action = "Rename"
    /\ intent.action = "Whitelist"

\* the tags of the file name of p that are in whitelist_tags, in order
WhitelistedTags(p, r) ==
    LET Keep(t) == t \in RuleSet(r.whitelist_tags)
    IN SelectSeq(get_descriptor(FileName(p)[1])[1].tags, Keep)

\* the (season, episode) of the file name of p
KeyOf(p) ==
    LET d == get_descriptor(FileName(p)[1])[1]
    IN [season |-> d.season, episode |-> d.episode]

\* the file name of the destination d parses to the season, the episode
\* and the whitelisted tags of the file name of the source s
ParsesIdentically(d, s, r) ==
    /\ HasEpisodePattern(d)
    /\ KeyOf(d) = KeyOf(s)
    /\ WhitelistedTags(d, r) = WhitelistedTags(s, r)

\* C3 as stated: the destination of a rename, classified with the same
\* rules and cache, is Complete whenever its file name parses identically.
C3_RenameThenComplete ==
    (pc = "reclassified" /\ ParsesIdentically(path, src, rules))
    => intent.action = "Complete"

\* C3 (amended): the destination D of a rename, classified with the same
\* rules and cache, is Complete whenever its file name parses identically
\* and no whitelist rule applies to D (no component of D is in
\* whitelist_folders and its file name is not in whitelist_filenames).
C3_RenameThenCompleteUnlessWhitelisted ==
    (/\ pc = "reclassified"
     /\ ParsesIdentically(path, src, rules)
     /\ ~Rule3_FolderWhitelisted(path, rules)
     /\ ~Rule4_FilenameWhitelisted(path, rules))
    => intent.action = "Complete"

\* a renamed file with a title suffix and a kept tag is Complete at its
\* destination
C3_Witness ==
    /\ pc = "reclassified"
    /\ ParsesIdentically(path, src, rules)
    /\ ~Rule3_FolderWhitelisted(path, rules)
    /\ ~Rule4_FilenameWhitelisted(path, rules)
    /\ WhitelistedTags(path, rules) # <<>>
    /\ NewEpisodeTitle(cache, intent.descriptor[1]) \notin {None, Some(<<>>)}
    /\ intent.action = "Complete"

\* no filter rule applies to p and its file name holds an episode pattern
IsPlanned(p, r) ==
    /\ ~Rule1_Malformed(p)
    /\ ~Rule2_Blacklisted(p, r)
    /\ ~Rule3_FolderWhitelisted(p, r)
    /\ ~Rule4_FilenameWhitelisted(p, r)
    /\ HasEpisodePattern(p)

\* the cache gives no usable title for key k: no entry, an episode without
\* a title, or a title that cleans to the empty string
TitleMissing(c, k) ==
    \/ k \notin DOMAIN c.episode_cache
    \/ c.episodes[c.episode_cache[k] + 1].name = None
    \/ clean_episode_title(c.episodes[c.episode_cache[k] + 1].name[1]) = <<>>

\* the canonical path of p without any title suffix
UntitledPath(p, r, c) ==
    LET d == get_descriptor(FileName(p)[1])[1]
    IN <<"S", "e", "a", "s", "o", "n", " ">> \o Pad2(d.season) \o <<"/">>
           \o clean_series_name(c.series.name)
           \o <<"-", "S">> \o Pad2(d.season) \o <<"E">> \o Pad2(d.episode)
           \o TagsString(d.tags, r)
           \o <<".">> \o Extension(p)[1]

\* C4: every call returns one of the five actions, also when the cache has
\* no entry for the key, an episode without title or a title that cleans
\* to nothing; a lookup miss only leaves the title suffix out.
C4_NeverFails ==
    pc # "start" =>
        /\ intent.action \in Action
        /\ (IsPlanned(path, rules) /\ TitleMissing(cache, KeyOf(path)))
           => LET untitled == UntitledPath(path, rules, cache)
              IN \/ /\ intent.action = "Rename"
                    /\ intent.dest = untitled
                 \/ /\ intent.action = "Complete"
                    /\ Components(path) = Components(untitled)

\* a planned file whose key has no entry in a cache that has other entries
C4_Witness ==
    /\ pc = "classified"
    /\ IsPlanned(path, rules)
    /\ KeyOf(path) \notin DOMAIN cache.episode_cache
    /\ DOMAIN cache.episode_cache # {}
    /\ intent.action = "Rename"

\* the title suffix of section 4.5, step 1
TitleSuffix(c, k) ==
    IF TitleMissing(c, k) THEN <<>>
    ELSE <<"-">> \o clean_episode_title(c.episodes[c.episode_cache[k] + 1].name[1])

\* the candidate path of section 4.5, steps 3 to 5
Candidate(p, r, c) ==
    LET d == get_descriptor(FileName(p)[1])[1]
    IN <<"S", "e", "a", "s", "o", "n", " ">> \o Pad2(d.season) \o <<"/">>
           \o clean_series_name(c.series.name)
           \o <<"-", "S">> \o Pad2(d.season) \o <<"E">> \o Pad2(d.episode)
           \o TitleSuffix(c, [season |-> d.season, episode |-> d.episode])
           \o TagsString(d.tags, r)
           \o <<".">> \o Extension(p)[1]

\* C5: a planned file is Complete exactly when its candidate path has the
\* components of the input path, and is otherwise a Rename to the
\* candidate path; "Season 01/Show Name-S01E02.mkv" is Complete and
\* "Show.Name.S01E02.mkv" is renamed to it.
C5_CompleteOrRename ==
    (pc # "start" /\ IsPlanned(path, rules)) =>
        /\ intent.action \in {"Complete", "Rename"}
        /\ LET candidate == Candidate(path, rules, cache)
           IN /\ intent.action = "Complete"
                     <=> Components(candidate) = Components(path)
              /\ intent.action = "Rename" => intent.dest = candidate
        /\ (/\ clean_series_name(cache.series.name) = <<"S", "h", "o", "w", " ", "N", "a", "m", "e">>
            /\ TitleMissing(cache, KeyOf(path))
            /\ path = <<"S", "e", "a", "s", "o", "n", " ", "0", "1", "/", "S", "h", "o", "w", " ", "N", "a", "m", "e", "-", "S", "0", "1", "E", "0", "2", ".", "m", "k", "v">>)
           => intent.action = "Complete"
        /\ (/\ clean_series_name(cache.series.name) = <<"S", "h", "o", "w", " ", "N", "a", "m", "e">>
            /\ TitleMissing(cache, KeyOf(path))
            /\ path = <<"S", "h", "o", "w", ".", "N", "a", "m", "e", ".", "S", "0", "1", "E", "0", "2", ".", "m", "k", "v">>)
           => /\ intent.action = "Rename"
              /\ intent.dest = <<"S", "e", "a", "s", "o", "n", " ", "0", "1", "/", "S", "h", "o", "w", " ", "N", "a", "m", "e", "-", "S", "0", "1", "E", "0", "2", ".", "m", "k", "v">>

\* a file that is Complete although its path is not, as a string, the
\* candidate path
C5_Witness ==
    /\ pc = "classified"
    /\ IsPlanned(path, rules)
    /\ intent.action = "Complete"
    /\ path # Candidate(path, rules, cache)

\* the tags of the file name of p, in extraction order
TagsOf(p) == get_descriptor(FileName(p)[1])[1].tags

\* the file name of the destination d without "." and the extension of p
DestStem(d, p) ==
    LET name == FileName(d)[1]
    IN SubSeq(name, 1, Len(name) - Len(Extension(p)[1]) - 1)

\* each tag of ts formatted as ".[tag]", in order
RECURSIVE Bracketed(_)
Bracketed(ts) ==
    IF ts = <<>> THEN <<>>
    ELSE Bracketed(SubSeq(ts, 1, Len(ts) - 1)) \o <<".", "[">> \o ts[Len(ts)] \o <<"]">>

EndsWith(s, t) == Len(t) <= Len(s) /\ SubSeq(s, Len(s) - Len(t) + 1, Len(s)) = t

\* C6: in a destination, before the extension, the bracketed tags are
\* exactly the tags of the source file name that are in whitelist_tags,
\* each as ".[tag]", in extraction order and with duplicates; no other tag
\* appears, and there is no tags segment when no tag is kept.
C6_TagFiltering ==
    (pc # "start" /\ intent.action = "Rename") =>
        LET stem == DestStem(intent.dest, path)
            kept == WhitelistedTags(path, rules)
            tags == TagsOf(path)
        IN /\ EndsWith(stem, Bracketed(kept))
           /\ ExtractTags(stem) = kept
           /\ \A i \in 1..Len(tags) :
                  tags[i] \notin RuleSet(rules.whitelist_tags)
                      => ~Contains(ExtractTags(stem), tags[i])

\* a rename that keeps a tag twice and drops another one between them
C6_Witness ==
    /\ pc = "classified"
    /\ intent.action = "Rename"
    /\ TagsOf(path) = <<<<"H", "D">>, <<"x">>, <<"H", "D">>>>
    /\ WhitelistedTags(path, rules) = <<<<"H", "D">>, <<"H", "D">>>>

\* t occurs in s
IsInfix(t, s) == \E i \in 0..(Len(s) - Len(t)) : SubSeq(s, i + 1, i + Len(t)) = t

\* n in decimal, with one leading zero when it is below 10
TwoDigits(n) == IF n < 10 THEN <<"0", Digits[n + 1]>> ELSE ToDec(n)

\* C7: in a destination, the folder is "Season " and the season, the file
\* name holds "-S" season "E" episode, both numbers zero-padded to two
\* digits and never truncated: season 4, episode 7 give "Season 04" and
\* "S04E07", season 123, episode 4 give "S123E04".
C7_NumericPadding ==
    (pc # "start" /\ intent.action = "Rename") =>
        LET key == intent.descriptor[1]
            folder == Components(intent.dest)[1]
            name == FileName(intent.dest)[1]
        IN /\ folder = <<"S", "e", "a", "s", "o", "n", " ">> \o TwoDigits(key.season)
           /\ IsInfix(<<"-", "S">> \o TwoDigits(key.season)
                          \o <<"E">> \o TwoDigits(key.episode), name)
           /\ DecVal(TwoDigits(key.season)) = key.season
           /\ DecVal(TwoDigits(key.episode)) = key.episode
           /\ (key.season = 4 /\ key.episode = 7)
              => /\ folder = <<"S", "e", "a", "s", "o", "n", " ", "0", "4">>
                 /\ IsInfix(<<"S", "0", "4", "E", "0", "7">>, name)
           /\ (key.season = 123 /\ key.episode = 4)
              => /\ folder = <<"S", "e", "a", "s", "o", "n", " ", "1", "2", "3">>
                 /\ IsInfix(<<"S", "1", "2", "3", "E", "0", "4">>, name)

\* a rename of season 123, episode 4
C7_Witness ==
    /\ pc = "classified"
    /\ intent.action = "Rename"
    /\ intent.descriptor = Some([season |-> 123, episode |-> 4])

\* C8: dest is empty when the action is Delete, Whitelist, Ignore or
\* Complete and is a non-empty path when the action is Rename.
C8_DestOnlyForRename ==
    pc # "start" =>
        /\ intent.action \in {"Delete", "Whitelist", "Ignore", "Complete"}
               => intent.dest = <<>>
        /\ intent.action = "Rename"
               => intent.dest # <<>> /\ Components(intent.dest) # <<>>

\* a file found Complete at the destination of its rename
C8_Witness ==
    /\ pc = "reclassified"
    /\ intent.action = "Complete"
    /\ intent.dest = <<>>

\* C10: the descriptor is present exactly when the action is Rename or
\* Complete, and is then the (season, episode) of the file name; it is
\* absent for Ignore, and for Delete and Whitelist also when the file name
\* holds an episode pattern.
C10_DescriptorPresence ==
    pc # "start" =>
        /\ intent.descriptor # None <=> intent.action \in {"Rename", "Complete"}
        /\ intent.descriptor # None
               => HasEpisodePattern(path) /\ intent.descriptor = Some(KeyOf(path))

\* a whitelisted file whose name holds an episode pattern
C10_Witness ==
    /\ pc = "classified"
    /\ intent.action = "Whitelist"
    /\ HasEpisodePattern(path)
    /\ intent.descriptor = None

====
